---- MODULE Spec2Model ----
(***************************************************************************)
(* Saudi Tourism Assistant (streamlit_app.py, openai_helper.py).           *)
(*                                                                         *)
(* Spec       : one browser session of streamlit_app.py.  Every user       *)
(*              interaction re-runs the script top to bottom; the script   *)
(*              position is pc, the only state kept between runs is        *)
(*              st.session_state.                                          *)
(* ClientSpec : the class OpenAIClient of openai_helper.py on its own,     *)
(*              constructed once and called with arbitrary arguments.      *)
(*                                                                         *)
(* Python's None is the empty tuple <<>> and a present value v is <<v>>.   *)
(***************************************************************************)
EXTENDS Integers, Sequences, FiniteSets, TLC

VARIABLES
    secrets,        \* st.secrets["OPENAI_API_KEY"]: <<>> when the key is not in the store
    environ,        \* os.environ.get("OPENAI_API_KEY"): <<>> when unset
    session_state,  \* st.session_state: a function on the keys set so far
    pc,             \* position of the script run (or of the library's caller)
    client,         \* the constructed OpenAIClient: <<>> or <<[api_key |-> k]>>
    widgets,        \* what the widgets return in this run
    prompt,         \* argument of the generate_response call being executed
    context,        \* argument of the generate_response call being executed
    in_flight,      \* requests sent to the completion service and not yet answered
    ret,            \* what generate_response gave back to its caller: <<>> or <<r>>
    response,       \* what the service did with the last request: <<>> or <<o>>
    clock,          \* datetime.utcnow(), in seconds after the start of the session
    log             \* observation counters (not program state)

vars == <<secrets, environ, session_state, pc, client, widgets, prompt, context,
          in_flight, ret, response, clock, log>>

(***************************************************************************)
(* Bounds of the model.                                                    *)
(***************************************************************************)
MaxActions == 4     \* form submits and chat sends in one session
MaxClock == 1       \* seconds the clock may advance
MaxCalls == 2       \* generate_response calls made in ClientSpec

(***************************************************************************)
(* Python values.                                                          *)
(***************************************************************************)
None == <<>>

Some(v) == <<v>>

\* bool(x) of an optional string: None and "" are false
Truthy(opt) == opt # None /\ opt[1] # ""

Min(a, b) == IF a < b THEN a ELSE b

Digit(d) == CASE d = 0 -> "0" [] d = 1 -> "1" [] d = 2 -> "2" [] d = 3 -> "3"
              [] d = 4 -> "4" [] d = 5 -> "5" [] d = 6 -> "6" [] d = 7 -> "7"
              [] d = 8 -> "8" [] d = 9 -> "9"

RECURSIVE Str(_)
\* str(n) of a non-negative int, as an f-string formats it
Str(n) == IF n < 10 THEN Digit(n) ELSE Str(n \div 10) \o Digit(n % 10)

\* datetime.utcnow().isoformat() at t seconds after the session's start
IsoFormat(t) == "2024-01-01T00:00:" \o Digit(t \div 10) \o Digit(t % 10)

(***************************************************************************)
(* OpenAIClient.__init__                                                   *)
(***************************************************************************)
\* st.secrets[K] if K in st.secrets else os.environ.get(K)
ResolveKey(sec, env) == IF sec # None THEN sec ELSE env

\* __init__ testing "api_key is None" in place of "not api_key"
NewClient_NoneOnly(sec, env) ==
    LET api_key == IF sec # None THEN sec ELSE env
    IN  IF api_key = None THEN None ELSE Some([api_key |-> api_key[1]])

\* __init__: None when it raises, else the client object
NewClient(sec, env) ==
    LET api_key == ResolveKey(sec, env)
    IN  IF ~Truthy(api_key) THEN None ELSE Some([api_key |-> api_key[1]])

(***************************************************************************)
(* OpenAIClient._create_messages                                           *)
(***************************************************************************)
AppPersona ==
    "You are a knowledgeable Saudi Arabia tourism expert. \n"
    \o "            Provide detailed recommendations based on the user's preferences.\n"
    \o "            Be specific about locations, activities, and cultural considerations.\n"
    \o "            Keep responses friendly and informative.\n"
    \o "            \n"
    \o "            Important guidelines:\n"
    \o "            1. Focus on practical recommendations\n"
    \o "            2. Include cultural sensitivity tips\n"
    \o "            3. Suggest specific places and activities\n"
    \o "            4. Mention estimated costs when relevant\n"
    \o "            5. Include safety tips and best times to visit"

HelperPersona ==
    "You are a knowledgeable Saudi Arabia tourism expert. \n"
    \o "            Provide detailed recommendations based on the user's preferences.\n"
    \o "            Be specific about locations, activities, and cultural considerations.\n"
    \o "            Keep responses friendly and informative."

Message(role, content) == [role |-> role, content |-> content]

\* _create_messages testing "context is not None" in place of "context"
create_messages_NotNone(persona, p, c) ==
    LET messages == <<Message("system", persona)>>
        with_context == IF c # None
                          THEN Append(messages, Message("system", "Previous context: " \o c[1]))
                          ELSE messages
    IN  Append(with_context, Message("user", p))

create_messages(persona, p, c) ==
    LET base_prompt == Message("system", persona)
        messages == <<base_prompt>>
        with_context == IF Truthy(c)
                          THEN Append(messages, Message("system", "Previous context: " \o c[1]))
                          ELSE messages
    IN  Append(with_context, Message("user", p))

\* the request handed to client.chat.completions.create
Request(messages) == [model |-> "gpt-4", messages |-> messages, temperature |-> "0.7"]

(***************************************************************************)
(* OpenAIClient.generate_response, from the service's answer on.           *)
(* An answer o is [kind, body, msg]:                                       *)
(*   kind = "reply"     : choices[0].message.content is body (None or str) *)
(*   kind = "nochoices" : the reply has an empty choices list              *)
(*   kind = "raise"     : create() raised an Exception e with str(e) = msg *)
(* The result is [text, ok, raised]; raised says an exception left         *)
(* generate_response instead of a pair being returned.                     *)
(***************************************************************************)
Answer(kind, body, msg) == [kind |-> kind, body |-> body, msg |-> msg]

Returned(text, ok) == [text |-> text, ok |-> ok, raised |-> FALSE]

EmptyResponseText == "OpenAI returned an empty response"

IndexErrorText == "list index out of range"

\* generate_response whose except clause re-raises
generate_response_Reraise(o) ==
    IF o.kind = "raise" THEN [text |-> o.msg, ok |-> FALSE, raised |-> TRUE]
    ELSE IF o.kind = "nochoices" THEN [text |-> IndexErrorText, ok |-> FALSE, raised |-> TRUE]
    ELSE IF ~Truthy(o.body) THEN Returned(EmptyResponseText, FALSE)
    ELSE Returned(o.body[1], TRUE)

\* generate_response testing "content is None" in place of "not content"
generate_response_NoneOnly(o) ==
    IF o.kind = "raise" THEN Returned(o.msg, FALSE)
    ELSE IF o.kind = "nochoices" THEN Returned(IndexErrorText, FALSE)
    ELSE IF o.body = None THEN Returned(EmptyResponseText, FALSE)
    ELSE Returned(o.body[1], TRUE)

generate_response(o) ==
    IF o.kind = "raise" THEN Returned(o.msg, FALSE)
    ELSE IF o.kind = "nochoices" THEN Returned(IndexErrorText, FALSE)
    ELSE IF ~Truthy(o.body) THEN Returned(EmptyResponseText, FALSE)
    ELSE Returned(o.body[1], TRUE)

Bodies == {None, Some(""), Some("Visit AlUla.")}

ErrorTexts == {"", "Error code: 429"}

Answers ==
    {Answer("reply", b, "") : b \in Bodies}
        \cup {Answer("nochoices", None, "")}
        \cup {Answer("raise", None, m) : m \in ErrorTexts}

(***************************************************************************)
(* The page: session state, widgets, handlers.                             *)
(***************************************************************************)
chat_history == IF "chat_history" \in DOMAIN session_state
                  THEN session_state["chat_history"] ELSE <<>>

ChatMessage(role, content, t) ==
    [role |-> role, content |-> content, timestamp |-> IsoFormat(t)]

\* chat_history.insert(0, ...) in place of append
AppendMessage_Insert(ss, role, content, t) ==
    [ss EXCEPT !["chat_history"] = <<ChatMessage(role, content, t)>> \o @]

\* st.session_state.chat_history.append(...)
AppendMessage(ss, role, content, t) ==
    [ss EXCEPT !["chat_history"] = Append(@, ChatMessage(role, content, t))]

ContextWindow == 5

\* chat_history[-4:]
recent_messages_Four(h) ==
    IF Len(h) <= 4 THEN h ELSE SubSeq(h, Len(h) - 3, Len(h))

\* chat_history[-5:]
recent_messages(h) ==
    IF Len(h) <= ContextWindow THEN h ELSE SubSeq(h, Len(h) - ContextWindow + 1, Len(h))

RECURSIVE Join(_, _)
\* sep.join(parts)
Join(sep, parts) ==
    IF parts = <<>> THEN ""
    ELSE IF Len(parts) = 1 THEN parts[1]
    ELSE parts[1] \o sep \o Join(sep, Tail(parts))

\* "\n".join([f"{msg['role']}: {msg['content']}" for msg in recent_messages])
BuildContext(h) ==
    LET recent == recent_messages(h)
    IN  Join("\n", [i \in 1..Len(recent) |-> recent[i].role \o ": " \o recent[i].content])

Preferences ==
    [location : {"AlUla"}, budget : {0, 1000}, currency : {"SAR"},
     trip_type : {"Cultural"}, family : {"2 adults, 1 child"}, duration : {14}]

initial_prompt(f) ==
    "Please provide a personalized travel recommendation for Saudi Arabia based on these preferences:\n"
    \o "                Location: " \o f.location \o "\n"
    \o "                Budget: " \o Str(f.budget) \o " " \o f.currency \o "\n"
    \o "                Trip Type: " \o f.trip_type \o "\n"
    \o "                Family: " \o f.family \o "\n"
    \o "                Duration: " \o Str(f.duration) \o " days\n"
    \o "                \n"
    \o "                Please include:\n"
    \o "                1. Suggested itinerary\n"
    \o "                2. Accommodation recommendations\n"
    \o "                3. Must-visit attractions\n"
    \o "                4. Local customs and etiquette\n"
    \o "                5. Budget breakdown\n"
    \o "                6. Travel tips"

UserInputs == {"", "What about\nJeddah?"}

SessionIds == {"6f1c"}

SecretValues == {None, Some(""), Some("sk-a")}

EnvironValues == {None, Some(""), Some("sk-b")}

NoWidgets == [submitted |-> FALSE, form |-> None, send |-> FALSE, user_input |-> ""]

\* actions      : form submits and presses of Send so far
\* form_submits : form submits so far
\* chat_sends   : presses of Send so far
\* utterances   : presses of Send with a non-empty text area so far
\* calls        : requests sent to the completion service so far
\* replies      : calls for which generate_response returned (text, True)
\* kind, before : the user's latest action and chat_history when it began
\* run_calls, run_returns : requests sent / answered since that action began
\* failed       : generate_response returned (text, False) since that action began
\* fault        : an exception left generate_response
NoLog == [actions |-> 0, form_submits |-> 0, chat_sends |-> 0, utterances |-> 0,
          calls |-> 0, replies |-> 0, kind |-> "none", before |-> <<>>,
          run_calls |-> 0, run_returns |-> 0, failed |-> FALSE, fault |-> FALSE]

(***************************************************************************)
(* Spec: one session of streamlit_app.py.                                  *)
(***************************************************************************)
Init ==
    /\ secrets \in SecretValues
    /\ environ \in EnvironValues
    /\ session_state = <<>>
    /\ pc = "idle"
    /\ client = None
    /\ widgets = NoWidgets
    /\ prompt = ""
    /\ context = None
    /\ in_flight = <<>>
    /\ ret = None
    /\ response = None
    /\ clock = 0
    /\ log = NoLog

\* a script run ends: buttons read False again, the text area keeps its text
EndRun(w) == [w EXCEPT !.submitted = FALSE, !.form = None, !.send = FALSE]

\* the script's local variables go with the run; the next run starts at next_pc
LeaveRun(next_pc) ==
    /\ pc' = next_pc
    /\ widgets' = EndRun(widgets)
    /\ prompt' = ""
    /\ context' = None
    /\ ret' = None
    /\ response' = None

\* the user presses "Get Recommendations" with the form filled in as f
UserSubmitsForm(f) ==
    /\ pc = "idle"
    /\ log.actions < MaxActions
    /\ widgets' = [widgets EXCEPT !.submitted = TRUE, !.form = Some(f)]
    /\ pc' = "session_init"
    /\ log' = [log EXCEPT !.actions = @ + 1, !.form_submits = @ + 1,
                          !.kind = "form", !.before = chat_history,
                          !.run_calls = 0, !.run_returns = 0, !.failed = FALSE]
    /\ UNCHANGED <<secrets, environ, session_state, client, prompt, context,
                   in_flight, ret, response, clock>>

\* the user presses "Send" with the text area as it stands
UserClicksSend ==
    /\ pc = "idle"
    /\ log.actions < MaxActions
    /\ widgets' = [widgets EXCEPT !.send = TRUE]
    /\ pc' = "session_init"
    /\ log' = [log EXCEPT !.actions = @ + 1, !.chat_sends = @ + 1,
                          !.utterances = IF widgets.user_input # "" THEN @ + 1 ELSE @,
                          !.kind = "send", !.before = chat_history,
                          !.run_calls = 0, !.run_returns = 0, !.failed = FALSE]
    /\ UNCHANGED <<secrets, environ, session_state, client, prompt, context,
                   in_flight, ret, response, clock>>

\* the user changes the text area: the page is rendered again, no button pressed
UserEditsText(t) ==
    /\ pc = "idle"
    /\ t # widgets.user_input
    /\ widgets' = [widgets EXCEPT !.user_input = t]
    /\ pc' = "session_init"
    /\ log' = [log EXCEPT !.kind = "edit", !.before = chat_history,
                          !.run_calls = 0, !.run_returns = 0, !.failed = FALSE]
    /\ UNCHANGED <<secrets, environ, session_state, client, prompt, context,
                   in_flight, ret, response, clock>>

\* lines 91-94
InitSessionState(ss, id) ==
    LET with_history == IF "chat_history" \in DOMAIN ss
                          THEN ss ELSE ss @@ ("chat_history" :> <<>>)
    IN  IF "session_id" \in DOMAIN with_history
          THEN with_history ELSE with_history @@ ("session_id" :> id)

SessionInit(id) ==
    /\ pc = "session_init"
    /\ session_state' = InitSessionState(session_state, id)
    /\ pc' = "client_init"
    /\ UNCHANGED <<secrets, environ, client, widgets, prompt, context,
                   in_flight, ret, response, clock, log>>

\* lines 104-108: st.stop() ends the run when the constructor raised
ClientInit ==
    /\ pc = "client_init"
    /\ client' = NewClient(secrets, environ)
    /\ IF client' = None
         THEN LeaveRun("idle")
         ELSE /\ pc' = "form"
              /\ UNCHANGED <<widgets, prompt, context, ret, response>>
    /\ UNCHANGED <<secrets, environ, session_state, in_flight, clock, log>>

\* a second request sent without waiting for the first
SendRequest_Twice(q, req) == Append(Append(q, req), req)

\* client.chat.completions.create(...) sends one request
SendRequest(q, req) == Append(q, req)

\* line 138
FormSubmitted(w) == w.submitted

\* lines 138-155, up to the request of generate_response
FormHandler ==
    /\ pc = "form"
    /\ IF FormSubmitted(widgets)
         THEN /\ prompt' = initial_prompt(widgets.form[1])
              /\ context' = None
              /\ in_flight' = SendRequest(in_flight,
                                  Request(create_messages(AppPersona, prompt', context')))
              /\ log' = [log EXCEPT !.calls = @ + 1, !.run_calls = @ + 1]
              /\ pc' = "form_call"
         ELSE /\ pc' = "chat"
              /\ UNCHANGED <<prompt, context, in_flight, log>>
    /\ UNCHANGED <<secrets, environ, session_state, client, widgets, ret, response,
                   clock>>

\* the service answers (or the call fails) and generate_response finishes
ServiceAnswers(o) ==
    /\ pc \in {"form_call", "chat_call", "lib_call"}
    /\ in_flight # <<>>
    /\ in_flight' = Tail(in_flight)
    /\ response' = Some(o)
    /\ ret' = Some(generate_response(o))
    /\ pc' = CASE pc = "form_call" -> "form_result"
              [] pc = "chat_call" -> "chat_result"
              [] pc = "lib_call" -> "lib_ready"
    /\ log' = [log EXCEPT !.run_returns = @ + 1,
                          !.replies = IF ret'[1].ok /\ ~ret'[1].raised THEN @ + 1 ELSE @,
                          !.failed = @ \/ (~ret'[1].ok /\ ~ret'[1].raised),
                          !.fault = @ \/ (ret'[1].raised /\ pc = "lib_call")]
    /\ UNCHANGED <<secrets, environ, session_state, client, widgets, prompt,
                   context, clock>>

\* the returned text joins the history whatever the flag
HistoryAfterReply_Always(ss, r, t) == AppendMessage(ss, "assistant", r.text, t)

\* lines 157-162 and 205-210: the reply joins the history only on success
HistoryAfterReply(ss, r, t) ==
    IF r.ok THEN AppendMessage(ss, "assistant", r.text, t) ELSE ss

\* lines 157-165; an exception out of generate_response would end the run here
FormResult ==
    /\ pc = "form_result"
    /\ IF ret[1].raised
         THEN /\ LeaveRun("idle")
              /\ log' = [log EXCEPT !.fault = TRUE]
              /\ UNCHANGED session_state
         ELSE /\ session_state' = HistoryAfterReply(session_state, ret[1], clock)
              /\ pc' = "chat"
              /\ UNCHANGED <<widgets, prompt, context, ret, response, log>>
    /\ UNCHANGED <<secrets, environ, client, in_flight, clock>>

\* "if user_input:" left out
SendPressed_NoCheck(w) == w.send

\* lines 189-190
SendPressed(w) == w.send /\ w.user_input # ""

\* lines 189-203, up to the request of generate_response
ChatHandler ==
    /\ pc = "chat"
    /\ IF SendPressed(widgets)
         THEN /\ session_state' = AppendMessage(session_state, "user",
                                                widgets.user_input, clock)
              /\ context' = Some(BuildContext(session_state'["chat_history"]))
              /\ prompt' = widgets.user_input
              /\ in_flight' = SendRequest(in_flight,
                                  Request(create_messages(AppPersona, prompt', context')))
              /\ ret' = None
              /\ response' = None
              /\ log' = [log EXCEPT !.calls = @ + 1, !.run_calls = @ + 1]
              /\ pc' = "chat_call"
              /\ UNCHANGED widgets
         ELSE /\ LeaveRun("idle")
              /\ UNCHANGED <<session_state, in_flight, log>>
    /\ UNCHANGED <<secrets, environ, client, clock>>

\* lines 205-213: st.experimental_rerun() starts the script again
ChatResult ==
    /\ pc = "chat_result"
    /\ IF ret[1].raised
         THEN /\ LeaveRun("idle")
              /\ log' = [log EXCEPT !.fault = TRUE]
              /\ UNCHANGED session_state
         ELSE /\ session_state' = HistoryAfterReply(session_state, ret[1], clock)
              /\ LeaveRun(IF ret[1].ok THEN "session_init" ELSE "idle")
              /\ UNCHANGED log
    /\ UNCHANGED <<secrets, environ, client, in_flight, clock>>

\* time passes
Tick ==
    /\ clock < MaxClock
    /\ clock' = clock + 1
    /\ UNCHANGED <<secrets, environ, session_state, pc, client, widgets, prompt,
                   context, in_flight, ret, response, log>>

Next ==
    \/ \E f \in Preferences : UserSubmitsForm(f)
    \/ UserClicksSend
    \/ \E t \in UserInputs : UserEditsText(t)
    \/ \E id \in SessionIds : SessionInit(id)
    \/ ClientInit
    \/ FormHandler
    \/ \E o \in Answers : ServiceAnswers(o)
    \/ FormResult
    \/ ChatHandler
    \/ ChatResult
    \/ Tick

Spec == Init /\ [][Next]_vars

(***************************************************************************)
(* ClientSpec: OpenAIClient of openai_helper.py, used as a library.        *)
(***************************************************************************)
Prompts == {"", "Hi", "Plan 3 days\nin Riyadh"}

Contexts == {None, Some(""), Some("user: Hi"), Some("user: Hi\nassistant: Hello")}

InitClient ==
    /\ secrets \in SecretValues
    /\ environ \in EnvironValues
    /\ session_state = <<>>
    /\ pc = "lib_new"
    /\ client = None
    /\ widgets = NoWidgets
    /\ prompt = ""
    /\ context = None
    /\ in_flight = <<>>
    /\ ret = None
    /\ response = None
    /\ clock = 0
    /\ log = NoLog

\* OpenAIClient(): the constructor returns or raises
LibConstruct ==
    /\ pc = "lib_new"
    /\ client' = NewClient(secrets, environ)
    /\ pc' = IF client' = None THEN "lib_failed" ELSE "lib_ready"
    /\ UNCHANGED <<secrets, environ, session_state, widgets, prompt, context,
                   in_flight, ret, response, clock, log>>

\* client.generate_response(p, c), up to its request
LibCall(p, c) ==
    /\ pc = "lib_ready"
    /\ log.calls < MaxCalls
    /\ prompt' = p
    /\ context' = c
    /\ in_flight' = SendRequest(in_flight,
                        Request(create_messages(HelperPersona, prompt', context')))
    /\ ret' = None
    /\ response' = None
    /\ log' = [log EXCEPT !.calls = @ + 1, !.run_calls = 1, !.run_returns = 0,
                          !.failed = FALSE]
    /\ pc' = "lib_call"
    /\ UNCHANGED <<secrets, environ, session_state, client, widgets, clock>>

NextClient ==
    \/ LibConstruct
    \/ \E p \in Prompts, c \in Contexts : LibCall(p, c)
    \/ \E o \in Answers : ServiceAnswers(o)

ClientSpec == InitClient /\ [][NextClient]_vars

(***************************************************************************)
(* Properties.                                                             *)
(***************************************************************************)
Users(h) == Cardinality({i \in DOMAIN h : h[i].role = "user"})

Assistants(h) == Cardinality({i \in DOMAIN h : h[i].role = "assistant"})

IsPrefix(a, b) == Len(a) <= Len(b) /\ SubSeq(b, 1, Len(a)) = a

KeyFound == Truthy(secrets) \/ Truthy(environ)

\* a user-and-content line of the context, written out
Line(h, i) == h[i].role \o ": " \o h[i].content

\* the last min(5, n) entries of h, one line each, written out case by case
LastFiveLines(h) ==
    LET n == Len(h)
        k == Min(5, n)
        f == n - k
    IN  CASE k = 0 -> ""
          [] k = 1 -> Line(h, f + 1)
          [] k = 2 -> Line(h, f + 1) \o "\n" \o Line(h, f + 2)
          [] k = 3 -> Line(h, f + 1) \o "\n" \o Line(h, f + 2) \o "\n" \o Line(h, f + 3)
          [] k = 4 -> Line(h, f + 1) \o "\n" \o Line(h, f + 2) \o "\n" \o Line(h, f + 3)
                        \o "\n" \o Line(h, f + 4)
          [] k = 5 -> Line(h, f + 1) \o "\n" \o Line(h, f + 2) \o "\n" \o Line(h, f + 3)
                        \o "\n" \o Line(h, f + 4) \o "\n" \o Line(h, f + 5)

\* C1: the request of every generate_response call carries the persona system
\* message first and the user message with the unmodified prompt last; a
\* non-empty context adds exactly one system message "Previous context: ..."
\* between them (3 entries), an absent or empty context adds nothing (2 entries).
C1_MessageSequence ==
    in_flight # <<>> =>
        LET m == in_flight[1].messages
            persona == IF pc = "lib_call" THEN HelperPersona ELSE AppPersona
        IN  /\ m[1] = [role |-> "system", content |-> persona]
            /\ m[Len(m)] = [role |-> "user", content |-> prompt]
            /\ IF context # None /\ context[1] # ""
                 THEN /\ Len(m) = 3
                      /\ m[2] = [role |-> "system",
                                 content |-> "Previous context: " \o context[1]]
                 ELSE Len(m) = 2

C1_Witness ==
    /\ pc = "lib_call"
    /\ context = Some("user: Hi")
    /\ prompt = "Plan 3 days\nin Riyadh"
    /\ Len(in_flight[1].messages) = 3

\* C2: when the completion call raises (or the reply has no choice to read),
\* generate_response returns (str(error), False) and no exception leaves it;
\* the script run goes on past the failed call and ends normally, so the
\* session accepts further submits and sends.
C2_FailureIsReturned ==
    /\ [](response # None /\ response[1].kind # "reply" =>
            ret = Some([text |-> IF response[1].kind = "raise"
                                   THEN response[1].msg ELSE IndexErrorText,
                        ok |-> FALSE, raised |-> FALSE]))
    /\ [](~log.fault)
    /\ [][(pc \in {"form_result", "chat_result"} /\ ~ret[1].ok /\ pc' # pc)
            => (pc' = IF pc = "form_result" THEN "chat" ELSE "idle")]_vars

C2_Witness ==
    /\ pc = "chat_result"
    /\ response = Some(Answer("raise", None, "Error code: 429"))
    /\ ret = Some([text |-> "Error code: 429", ok |-> FALSE, raised |-> FALSE])
    /\ log.calls >= 2
    /\ log.replies = 0

\* C3: an empty or absent reply body gives (m, False) with m non-empty; a True
\* flag comes only with the service's non-empty body as the text.
C3_EmptyReply ==
    ret # None =>
        /\ (response[1].kind = "reply" /\ ~Truthy(response[1].body))
              => (~ret[1].ok /\ ret[1].text # "" /\ ~ret[1].raised)
        /\ ret[1].ok => /\ ret[1].text # ""
                        /\ response[1].kind = "reply"
                        /\ response[1].body = Some(ret[1].text)

C3_Witness ==
    /\ ret # None
    /\ response[1].kind = "reply"
    /\ response[1].body = Some("")
    /\ ~ret[1].ok

\* C4: with no non-empty key in the secret store or the environment, the
\* client is never constructed, every script run stops before the form and
\* chat handlers, no request is ever sent and the history stays empty.
C4_NoKeyNoCall ==
    ~KeyFound =>
        /\ client = None
        /\ pc \in {"idle", "session_init", "client_init"}
        /\ log.calls = 0
        /\ in_flight = <<>>
        /\ chat_history = <<>>

C4_Witness ==
    /\ ~KeyFound
    /\ pc = "idle"
    /\ log.form_submits >= 1
    /\ log.utterances >= 1

\* C5: once the constructor has run, it has succeeded exactly when one of the
\* two sources yields a non-empty value, holding the secret store's value when
\* the store yields one and the environment variable's value otherwise.
C5_Claim ==
    pc # "lib_new" =>
        IF KeyFound
          THEN client = Some([api_key |-> IF Truthy(secrets)
                                            THEN secrets[1] ELSE environ[1]])
          ELSE client = None

\* C6: every step leaves the chat history as it was or longer, with the old
\* history as a prefix of the new one (role, content and timestamp included).
C6_AppendOnly == [][IsPrefix(chat_history, chat_history')]_vars

C6_Witness ==
    /\ pc = "idle"
    /\ Len(chat_history) >= 3
    /\ log.kind = "edit"

\* C7 as claimed: between runs the history holds one user entry per form
\* submit and per sent utterance and one assistant entry per successful reply.
C7_Original ==
    (pc = "idle" /\ client # None) =>
        /\ Users(chat_history) = log.form_submits + log.utterances
        /\ Assistants(chat_history) = log.replies
        /\ Len(chat_history) = log.form_submits + log.utterances + log.replies

\* C7 amended: between runs the history holds one user entry per Send pressed
\* with a non-empty text and one assistant entry per successful reply; a form
\* submit adds no user entry.
C7_Amended ==
    (pc = "idle" /\ client # None) =>
        /\ Users(chat_history) = log.utterances
        /\ Assistants(chat_history) = log.replies
        /\ Len(chat_history) = log.utterances + log.replies

C7_Witness ==
    /\ pc = "idle"
    /\ log.form_submits >= 1
    /\ log.utterances >= 2
    /\ log.replies >= 1
    /\ log.replies < log.calls

\* C8 as claimed: the context of every call is the last min(5, n) entries of
\* the history, in order, each as "role: content", joined by newlines.
C8_Original ==
    pc \in {"form_call", "chat_call"} =>
        (IF context = None THEN "" ELSE context[1]) = LastFiveLines(chat_history)

\* C8 amended: the context of a chat send's call is the last min(5, n) entries
\* of the history as it stands once the user's entry has been appended, in
\* order, each as "role: content", joined by newlines; a form submit's call
\* carries no context.
C8_Amended ==
    /\ pc = "chat_call" =>
          /\ context = Some(LastFiveLines(chat_history))
          /\ in_flight[1].messages[2].content
                = "Previous context: " \o LastFiveLines(chat_history)
    /\ pc = "form_call" =>
          /\ context = None
          /\ Len(in_flight[1].messages) = 2

C8_Witness ==
    /\ pc = "chat_call"
    /\ Len(chat_history) = 7

\* C9 as claimed: one call per form submit and per sent utterance, never two
\* calls in flight, and the history changes only after the action's call has
\* returned.
C9_Original ==
    /\ [](Len(in_flight) <= 1)
    /\ []((pc = "idle" /\ client # None)
            => log.calls = log.form_submits + log.utterances)
    /\ [][chat_history' # chat_history
            => (log.run_returns = 1 /\ in_flight = <<>>)]_vars

\* C9 amended: one call per form submit and per Send pressed with a non-empty
\* text, never two calls in flight; an assistant entry is appended only after
\* the action's call has returned, while the chat send's user entry is
\* appended before its call is issued.
C9_Amended ==
    /\ [](Len(in_flight) <= 1 /\ log.run_calls <= 1)
    /\ []((pc = "idle" /\ client # None)
            => log.calls = log.form_submits + log.utterances)
    /\ [][chat_history' # chat_history =>
            LET new == chat_history'[Len(chat_history')]
            IN  IF new.role = "assistant"
                  THEN log.run_returns = 1 /\ in_flight = <<>>
                  ELSE /\ log.run_calls = 0 /\ in_flight = <<>>
                       /\ log'.run_calls = 1 /\ Len(in_flight') = 1]_vars

C9_Witness ==
    /\ pc = "idle"
    /\ log.form_submits >= 1
    /\ log.utterances >= 1
    /\ log.chat_sends > log.utterances
    /\ log.calls >= 2

\* C10: an assistant entry is appended only when generate_response returned
\* True, with the returned text as content; after a failed form submit the
\* history is what it was before the submit, after a failed chat send it is
\* what it was before plus the one user entry holding the sent text.
C10_FailedCallEffect ==
    /\ [][(Len(chat_history') > Len(chat_history)
            /\ chat_history'[Len(chat_history')].role = "assistant")
            => (ret # None /\ ret[1].ok
                /\ chat_history'[Len(chat_history')].content = ret[1].text)]_vars
    /\ []((pc = "idle" /\ log.failed /\ log.kind = "form")
            => chat_history = log.before)
    /\ []((pc = "idle" /\ log.failed /\ log.kind = "send")
            => /\ Len(chat_history) = Len(log.before) + 1
               /\ SubSeq(chat_history, 1, Len(log.before)) = log.before
               /\ chat_history[Len(chat_history)].role = "user"
               /\ chat_history[Len(chat_history)].content = widgets.user_input)

C10_Witness ==
    /\ pc = "idle"
    /\ log.failed
    /\ log.kind = "send"
    /\ Len(chat_history) >= 2
    /\ chat_history[Len(chat_history)].role = "user"
    /\ chat_history[Len(chat_history) - 1].role = "user"

====
